---- MODULE Spec2Model ----
(***************************************************************************)
(* The useSubscribe hook of replicache-react (index.ts, version 6.1.0):    *)
(* the microtask batch scheduler (callbacks, hasPendingCallback,           *)
(* doCallback) shared by all hook instances, and the per-instance          *)
(* subscription lifecycle (render body, effect setup, effect cleanup,      *)
(* onData).                                                                *)
(*                                                                         *)
(* One hook instance is one mounted component that calls useSubscribe on   *)
(* every render.  React is modelled by what the hook relies on:            *)
(*   - a render runs the function body and returns a value;                *)
(*   - the effect of a render is (re)run when it is the first render or    *)
(*     when React finds its dependency array [r, ...dependencies] changed; *)
(*     React compares the arrays position by position, by Object.is, over  *)
(*     the positions both arrays have;                                     *)
(*   - the pending effect of a render (old cleanup, then new setup) runs   *)
(*     before the next render of the instance; data events and the         *)
(*     microtask flush may run in between;                                 *)
(*   - unmounting runs the cleanup of the last effect that was set up.     *)
(***************************************************************************)
EXTENDS Integers, Sequences, FiniteSets, TLC

\* ------------------------------------------------------------------ bounds
\* Subscriptions one instance may create (caps generationRef).
MaxSubs == 2
\* Data events delivered in one behaviour, over all subscriptions.
MaxData == 2

\* ------------------------------------------------------------------ values
\* Hook instances (components that call useSubscribe).
Inst == {1, 2}
\* Subscribable objects, compared by identity.
Source == {"A", "B", "C"}
\* The two absent sources: r may be null or undefined.
RNull == "r_null"
RUndef == "r_undefined"
\* Mutant: only null taken for absent.
AbsentNullOnly == {RNull}
Absent == {RNull, RUndef}
\* What a render may pass as r and options.dependencies: two sources and
\* null; for one source, dependency lists that differ in an element and in
\* length.
In(r, deps) == [r |-> r, deps |-> deps]
Inputs ==
    {In("A", << >>), In("A", <<1>>), In("A", <<2>>), In("B", << >>),
     In(RNull, << >>)}
\* Two sources, no dependencies.
TwoSources == {In("A", << >>), In("B", << >>)}
\* One source, no dependencies.
OneSource == {In("A", << >>)}
\* One source and the two absent ones, no dependencies.
SourceOrAbsent == {In("A", << >>), In(RNull, << >>), In(RUndef, << >>)}
\* Three sources that a component switches through, in this order.
Chain == <<"A", "B", "C">>
\* What the query produces on each of them.
QueryResult == [s \in Source |-> IF s = "A" THEN "a" ELSE IF s = "B" THEN "b" ELSE "c"]
\* The absent sentinel of snapshot and of prevSnapshotRef.
Undef == "undefined"
\* null is a result like any other.
Null == "null"
\* Results a query can produce: two real values and undefined.
Data == {"a", Null, Undef}
\* The results that are data: everything but undefined.
RealData == {"a", "b", "c", Null}
\* options.default, the same in every render; no query produces it.
Def == "default"
\* The value of ret before the first render.
NoRet == "no_render"
\* The value of applied while the current subscription has had none applied.
NotApplied == "not_applied"

VARIABLES
    \* scheduler (module level, shared)
    callbacks,          \* sequence of [inst, sub, data]: () => { if (isMounted) setSnapshot(data) }
    hasPendingCallback, \* BOOLEAN
    microtasks,         \* number of doCallback microtasks queued by Promise.resolve().then
    cbs,                \* doCallback's const cbs: what a running flush has still to invoke
    \* per instance: React state and refs
    phase,              \* "unmounted" (never rendered), "mounted", "destroyed"
    snapshot,           \* useState value
    prevSnapshotRef,
    generationRef,
    prevRRef,
    prevDepsRef,
    hasRunEffectRef,
    \* per instance: the last render and the effect React holds for it
    props,              \* [r, deps, keep] passed to the last render
    effect,             \* [pending, snapshot]: the effect closure waiting to run
    cleanup,            \* [sub, keep]: the cleanup returned by the last setup; sub = 0: none
    ret,                \* what the last render returned
    transitioned,       \* hasTransitioned of the last render
    \* per instance: the subscriptions created so far, in creation order
    subs,               \* sequence of [gen, isMounted, unsubscribed, fired]
    \* history
    nData,              \* data events delivered so far
    held,               \* per instance: the value a transition must keep on screen
    applied,            \* per instance: the value a flush last applied from the current subscription
    last                \* the last step taken: [op, inst, sub, honoured, quiet]

vars == <<callbacks, hasPendingCallback, microtasks, cbs, phase, snapshot,
          prevSnapshotRef, generationRef, prevRRef, prevDepsRef,
          hasRunEffectRef, props, effect, cleanup, ret, transitioned, subs,
          nData, held, applied, last>>

schedVars == <<callbacks, hasPendingCallback, microtasks, cbs>>
refVars == <<prevSnapshotRef, generationRef, prevRRef, prevDepsRef, hasRunEffectRef>>

\* The record of a step.  quiet: the step is a render, or the effect of the
\* render that was the step before it, so that nothing else has happened
\* since that render.
Step(op, i, k, h, q) ==
    [op |-> op, inst |-> i, sub |-> k, honoured |-> h, quiet |-> q]

\* Nothing but the effect of instance i's last render has happened since
\* that render: no data event, no flush, no other step.
QuietSinceRender(i) == last.quiet /\ last.inst = i

\* History for the renders that follow a transition: the real value the
\* render before the transition returned, when the transition was rendered
\* with keepPreviousData = true and nothing happened between the two
\* renders; forgotten at the next data event, flush or unmount.
heldAfterRender(i, trans, keep) ==
    IF trans
    THEN IF keep /\ QuietSinceRender(i) /\ ret[i] \in RealData
         THEN ret[i] ELSE NoRet
    ELSE held[i]

Init ==
    /\ callbacks = << >>
    /\ hasPendingCallback = FALSE
    /\ microtasks = 0
    /\ cbs = << >>
    /\ phase = [i \in Inst |-> "unmounted"]
    /\ snapshot = [i \in Inst |-> Undef]
    /\ prevSnapshotRef = [i \in Inst |-> Undef]
    /\ generationRef = [i \in Inst |-> 0]
    /\ prevRRef = [i \in Inst |-> RUndef]
    /\ prevDepsRef = [i \in Inst |-> << >>]
    /\ hasRunEffectRef = [i \in Inst |-> FALSE]
    /\ props = [i \in Inst |-> [r |-> RUndef, deps |-> << >>, keep |-> TRUE]]
    /\ effect = [i \in Inst |-> [pending |-> FALSE, snapshot |-> Undef]]
    /\ cleanup = [i \in Inst |-> [sub |-> 0, keep |-> TRUE]]
    /\ ret = [i \in Inst |-> NoRet]
    /\ transitioned = [i \in Inst |-> FALSE]
    /\ subs = [i \in Inst |-> << >>]
    /\ nData = 0
    /\ held = [i \in Inst |-> NoRet]
    /\ applied = [i \in Inst |-> NotApplied]
    /\ last = Step("Init", 0, 0, FALSE, FALSE)

\* ------------------------------------------------------- the render body

\* dependencies.length !== prev.length || dependencies.some((dep, i) => !Object.is(dep, prev[i]))
depsChanged(deps, prev) ==
    \/ Len(deps) # Len(prev)
    \/ \E k \in 1..Len(deps) : deps[k] # prev[k]

\* Mutant: the transition test without hasRunEffectRef.
hasTransitionedUnguarded(i, r, deps) ==
    r # prevRRef[i] \/ depsChanged(deps, prevDepsRef[i])

\* Mutant: a transition once detected stays detected.
hasTransitionedSticky(i, r, deps) ==
    /\ transitioned[i] \/ r # prevRRef[i] \/ depsChanged(deps, prevDepsRef[i])
    /\ hasRunEffectRef[i]

\* (r !== prevRRef.current || depsChanged) && hasRunEffectRef.current
hasTransitioned(i, r, deps) ==
    /\ r # prevRRef[i] \/ depsChanged(deps, prevDepsRef[i])
    /\ hasRunEffectRef[i]

\* Mutant: the render without its transition branch.
ResolveNoTransition(trans, keep, snap, prev) ==
    IF snap = Undef
    THEN IF keep /\ prev # Undef THEN prev ELSE Def
    ELSE snap

\* Mutant: null taken for the absent sentinel.
ResolveNullAbsent(trans, keep, snap, prev) ==
    IF trans /\ ~keep THEN Def
    ELSE IF snap \in {Undef, Null}
         THEN IF keep /\ prev \notin {Undef, Null} THEN prev ELSE Def
         ELSE snap

\* Mutant: the cache consulted before the snapshot.
ResolveCacheFirst(trans, keep, snap, prev) ==
    IF trans /\ ~keep THEN Def
    ELSE IF keep /\ prev # Undef THEN prev
         ELSE IF snap # Undef THEN snap ELSE Def

\* The value the render returns.
Resolve(trans, keep, snap, prev) ==
    IF trans /\ ~keep THEN Def
    ELSE IF snap = Undef
         THEN IF keep /\ prev # Undef THEN prev ELSE Def
         ELSE snap

\* Mutant: an effect without a dependency array, run after every render.
areHookInputsEqualNever(next, prev) == FALSE

\* React's comparison of the effect's dependency arrays of two renders.
areHookInputsEqual(next, prev) ==
    \A k \in 1..Len(next) : k <= Len(prev) => next[k] = prev[k]

\* The dependency array of the effect: [r, ...(dependencies ?? [])].
effectDeps(p) == <<p.r>> \o p.deps

\* Whether React will run the effect of a render with these inputs.
effectFires(i, r, deps) ==
    \/ phase[i] = "unmounted"
    \/ ~areHookInputsEqual(effectDeps([r |-> r, deps |-> deps]), effectDeps(props[i]))

\* One render of instance i: the body of useSubscribe.
useSubscribe(i, r, deps, keep) ==
    /\ phase[i] # "destroyed"
    /\ ~effect[i].pending
    /\ LET trans == hasTransitioned(i, r, deps)
           fires == effectFires(i, r, deps)
       IN /\ transitioned' = [transitioned EXCEPT ![i] = trans]
          /\ ret' = [ret EXCEPT ![i] = Resolve(trans, keep, snapshot[i], prevSnapshotRef[i])]
          /\ effect' = [effect EXCEPT ![i] =
                 [pending |-> fires,
                  snapshot |-> IF fires THEN snapshot[i] ELSE Undef]]
    /\ props' = [props EXCEPT ![i] = [r |-> r, deps |-> deps, keep |-> keep]]
    /\ phase' = [phase EXCEPT ![i] = "mounted"]
    /\ held' = [held EXCEPT ![i] = heldAfterRender(i, hasTransitioned(i, r, deps), keep)]
    /\ last' = Step("Render", i, 0, FALSE, TRUE)
    /\ UNCHANGED <<schedVars, snapshot, refVars, cleanup, subs, nData, applied>>

\* ------------------------------------------------- effect cleanup and setup

\* The subscription created by a setup: currentGen and isMounted = true of
\* the closure; how often its unsubscribe was called; whether it called onData.
newSub(gen) == [gen |-> gen, isMounted |-> TRUE, unsubscribed |-> 0, fired |-> FALSE]

\* Mutant: a cleanup that does not call unsubscribe.
cleanupSubsNoUnsubscribe(c, ss) ==
    IF c.sub = 0 THEN ss
    ELSE [ss EXCEPT ![c.sub] = [@ EXCEPT !.isMounted = FALSE]]

\* Mutant: a cleanup that calls unsubscribe twice.
cleanupSubsTwice(c, ss) ==
    IF c.sub = 0 THEN ss
    ELSE [ss EXCEPT ![c.sub] = [@ EXCEPT !.isMounted = FALSE,
                                         !.unsubscribed = @ + 2]]

\* Cleanup: isMounted = false; unsubscribe().
cleanupSubs(c, ss) ==
    IF c.sub = 0 THEN ss
    ELSE [ss EXCEPT ![c.sub] = [@ EXCEPT !.isMounted = FALSE,
                                         !.unsubscribed = @ + 1]]

\* Cleanup: prevSnapshotRef.current = undefined.
cleanupPrev(c, prev) == IF c.sub = 0 THEN prev ELSE Undef

\* Mutant: a cleanup that resets the snapshot whatever keepPreviousData is.
cleanupSnapshotAlways(c, snap) == IF c.sub # 0 THEN Undef ELSE snap

\* Cleanup: if (!keepPreviousData) setSnapshot(undefined), with the
\* keepPreviousData of the render whose effect returned this cleanup.
cleanupSnapshot(c, snap) == IF c.sub # 0 /\ ~c.keep THEN Undef ELSE snap

\* Setup: if (keepPreviousData && snapshot !== undefined) prevSnapshotRef.current = snapshot,
\* with the snapshot of the render whose effect this is; skipped when !r.
setupPrev(p, closureSnap, prev) ==
    IF p.r \notin Absent /\ p.keep /\ closureSnap # Undef THEN closureSnap ELSE prev

\* Mutant: the generation incremented by every setup, also when !r.
setupGenerationAlways(p, gen) == gen + 1

\* Setup: const currentGen = ++generationRef.current; skipped when !r.
setupGeneration(p, gen) == IF p.r \in Absent THEN gen ELSE gen + 1

\* The effect of the last render of instance i: the cleanup of the previous
\* effect, if it returned one, then the setup.
runEffect(i) ==
    /\ phase[i] = "mounted"
    /\ effect[i].pending
    /\ LET p == props[i]
           c == cleanup[i]
           gen == setupGeneration(p, generationRef[i])
           ss == cleanupSubs(c, subs[i])
       IN /\ hasRunEffectRef' = [hasRunEffectRef EXCEPT ![i] = TRUE]
          /\ prevRRef' = [prevRRef EXCEPT ![i] = p.r]
          /\ prevDepsRef' = [prevDepsRef EXCEPT ![i] = p.deps]
          /\ snapshot' = [snapshot EXCEPT ![i] = cleanupSnapshot(c, @)]
          /\ prevSnapshotRef' = [prevSnapshotRef EXCEPT ![i] =
                 setupPrev(p, effect[i].snapshot, cleanupPrev(c, @))]
          /\ generationRef' = [generationRef EXCEPT ![i] = gen]
          /\ subs' = [subs EXCEPT ![i] =
                 IF p.r \in Absent THEN ss ELSE Append(ss, newSub(gen))]
          /\ cleanup' = [cleanup EXCEPT ![i] =
                 IF p.r \in Absent THEN [sub |-> 0, keep |-> TRUE]
                 ELSE [sub |-> Len(ss) + 1, keep |-> p.keep]]
    /\ effect' = [effect EXCEPT ![i] = [pending |-> FALSE, snapshot |-> Undef]]
    /\ applied' = [applied EXCEPT ![i] = NotApplied]
    /\ last' = Step("Effect", i, 0, FALSE, last.op = "Render" /\ last.inst = i)
    /\ UNCHANGED <<schedVars, phase, props, ret, transitioned, nData, held>>

\* The component is destroyed: React runs the cleanup of its last effect.
unmount(i) ==
    /\ phase[i] = "mounted"
    /\ ~effect[i].pending
    /\ LET c == cleanup[i]
       IN /\ subs' = [subs EXCEPT ![i] = cleanupSubs(c, @)]
          /\ prevSnapshotRef' = [prevSnapshotRef EXCEPT ![i] = cleanupPrev(c, @)]
          /\ snapshot' = [snapshot EXCEPT ![i] = cleanupSnapshot(c, @)]
    /\ cleanup' = [cleanup EXCEPT ![i] = [sub |-> 0, keep |-> TRUE]]
    /\ phase' = [phase EXCEPT ![i] = "destroyed"]
    /\ held' = [held EXCEPT ![i] = NoRet]
    /\ applied' = [applied EXCEPT ![i] = NotApplied]
    /\ last' = Step("Unmount", i, 0, FALSE, FALSE)
    /\ UNCHANGED <<schedVars, generationRef, prevRRef, prevDepsRef,
                   hasRunEffectRef, props, effect, ret, transitioned, nData>>

\* ------------------------------------------------------------ data events

\* Mutant: onData without the generation check.
isCurrentUnchecked(i, k) == TRUE

\* Mutant: the generation check inverted.
isCurrentInverted(i, k) == generationRef[i] # subs[i][k].gen

\* Mutant: the generation check lets the subscription before the current
\* one through.
isCurrentOffByOne(i, k) == generationRef[i] - subs[i][k].gen <= 1

\* The generation check of onData: generationRef.current === currentGen.
isCurrent(i, k) == generationRef[i] = subs[i][k].gen

\* Mutant: the flag test inverted.
scheduleInverted(pending, tasks) == IF pending THEN tasks + 1 ELSE tasks

\* Mutant: a microtask for every data event.
scheduleEach(pending, tasks) == tasks + 1

\* Mutant: no microtask is ever queued.
scheduleNever(pending, tasks) == tasks

\* if (!hasPendingCallback) { Promise.resolve().then(doCallback); hasPendingCallback = true }
schedule(pending, tasks) == IF pending THEN tasks ELSE tasks + 1

\* Mutant: the callback pushed twice.
enqueueTwice(queue, i, k, v) ==
    Append(Append(queue, [inst |-> i, sub |-> k, data |-> v]),
           [inst |-> i, sub |-> k, data |-> v])

\* callbacks.push(() => { if (isMounted) setSnapshot(data) }), for
\* subscription k of instance i and the delivered value v.
enqueue(queue, i, k, v) == Append(queue, [inst |-> i, sub |-> k, data |-> v])

\* Subscription k of instance i calls onData(v).  The source may do so at
\* any time after subscribe, also after unsubscribe was called.
onData(i, k, v) ==
    /\ k \in 1..Len(subs[i])
    /\ nData' = nData + 1
    /\ subs' = [subs EXCEPT ![i][k].fired = TRUE]
    /\ IF isCurrent(i, k)
       THEN /\ prevSnapshotRef' = [prevSnapshotRef EXCEPT ![i] = v]
            /\ callbacks' = enqueue(callbacks, i, k, v)
            /\ microtasks' = schedule(hasPendingCallback, microtasks)
            /\ hasPendingCallback' = TRUE
            /\ cbs' = cbs
       ELSE UNCHANGED <<prevSnapshotRef, schedVars>>
    /\ held' = [held EXCEPT ![i] = NoRet]
    /\ last' = Step("Data", i, k, isCurrent(i, k), FALSE)
    /\ UNCHANGED <<phase, snapshot, generationRef, prevRRef, prevDepsRef,
                   hasRunEffectRef, props, effect, cleanup, ret, transitioned,
                   applied>>

\* Mutant: a callback that does not apply undefined.
applyCallbackSkipUndefined(cb, snap) ==
    IF subs[cb.inst][cb.sub].isMounted /\ cb.data # Undef
    THEN [snap EXCEPT ![cb.inst] = cb.data]
    ELSE snap

\* Mutant: a callback that sets the snapshot of every instance.
applyCallbackShared(cb, snap) ==
    IF subs[cb.inst][cb.sub].isMounted
    THEN [i \in Inst |-> cb.data]
    ELSE snap

\* Mutant: a callback without the isMounted test.
applyCallbackUnguarded(cb, snap) == [snap EXCEPT ![cb.inst] = cb.data]

\* One queued callback: if (isMounted) setSnapshot(data).
applyCallback(cb, snap) ==
    IF subs[cb.inst][cb.sub].isMounted
    THEN [snap EXCEPT ![cb.inst] = cb.data]
    ELSE snap

\* for (const callback of cbs) callback()
RECURSIVE applyCallbacks(_, _)
applyCallbacks(queue, snap) ==
    IF queue = << >> THEN snap
    ELSE applyCallbacks(Tail(queue), applyCallback(Head(queue), snap))

\* History: the value of the last callback of each instance that the flush
\* lets through; a callback is let through only while its subscription is
\* the current one.
appliedAfter(queue) ==
    [i \in Inst |->
        LET live == {n \in 1..Len(queue) :
                        queue[n].inst = i /\ subs[i][queue[n].sub].isMounted}
        IN IF live = {} THEN applied[i]
           ELSE queue[CHOOSE n \in live : \A m \in live : m <= n].data]

\* The microtask runs doCallback, no callback throws, and nothing else
\* runs before it returns.
doCallback ==
    /\ microtasks > 0
    /\ cbs = << >>
    /\ microtasks' = microtasks - 1
    /\ callbacks' = << >>
    /\ hasPendingCallback' = FALSE
    /\ cbs' = << >>
    /\ snapshot' = applyCallbacks(callbacks, snapshot)
    /\ applied' = appliedAfter(callbacks)
    /\ held' = [i \in Inst |-> NoRet]
    /\ last' = Step("Flush", 0, 0, FALSE, FALSE)
    /\ UNCHANGED <<phase, refVars, props, effect, cleanup, ret, transitioned,
                   subs, nData>>

\* ------------------------------------------------- the flush, step by step

\* Mutant: the flag reset left for the end of the loop.
swapKeepsFlag(queue) ==
    [cbs |-> queue, callbacks |-> << >>, hasPendingCallback |-> TRUE]

\* Mutant: the queue emptied after the loop instead of before it.
swapKeepsQueue(queue) ==
    [cbs |-> queue, callbacks |-> queue, hasPendingCallback |-> FALSE]

\* const cbs = callbacks; callbacks = []; hasPendingCallback = false
swap(queue) ==
    [cbs |-> queue, callbacks |-> << >>, hasPendingCallback |-> FALSE]

\* How a call of a queued callback may end: it returns, or it throws before
\* or after setSnapshot took the value.
Outcome == {"returns", "throws", "sets_then_throws"}

\* Mutant: the loop without try/catch.
remainingUncaught(queue, out) == IF out = "returns" THEN Tail(queue) ELSE << >>

\* try { callback() } catch (e) { console.error(...) }: the loop goes on
\* with the next callback, however this one ended.
remaining(queue, out) == Tail(queue)

\* The record of a call of callback cb: threw, and whether an earlier call
\* of the same loop, with nothing in between, threw.
InvokeStep(cb, out) ==
    [op |-> "Invoke", inst |-> cb.inst, sub |-> cb.sub, honoured |-> FALSE,
     quiet |-> FALSE, threw |-> out # "returns",
     afterThrow |-> last.op = "Invoke" /\ (last.threw \/ last.afterThrow)]

\* The microtask enters doCallback: the swap, before the loop.
beginFlush ==
    /\ microtasks > 0
    /\ cbs = << >>
    /\ microtasks' = microtasks - 1
    /\ LET sw == swap(callbacks)
       IN /\ cbs' = sw.cbs
          /\ callbacks' = sw.callbacks
          /\ hasPendingCallback' = sw.hasPendingCallback
    /\ held' = [i \in Inst |-> NoRet]
    /\ last' = Step("Begin", 0, 0, FALSE, FALSE)
    /\ UNCHANGED <<phase, snapshot, refVars, props, effect, cleanup, ret,
                   transitioned, subs, nData, applied>>

\* One turn of the loop of doCallback: the next callback is called and ends
\* with outcome out.
invoke(out) ==
    /\ cbs # << >>
    /\ LET cb == Head(cbs)
           sets == out # "throws"
       IN /\ snapshot' = IF sets THEN applyCallback(cb, snapshot) ELSE snapshot
          /\ applied' = IF sets /\ subs[cb.inst][cb.sub].isMounted
                        THEN [applied EXCEPT ![cb.inst] = cb.data]
                        ELSE applied
          /\ last' = InvokeStep(cb, out)
    /\ cbs' = remaining(cbs, out)
    /\ held' = [i \in Inst |-> NoRet]
    /\ UNCHANGED <<callbacks, hasPendingCallback, microtasks, phase, refVars,
                   props, effect, cleanup, ret, transitioned, subs, nData>>

\* ------------------------------------------------------------------ system

\* ------------------------------------------------ the effect, step by step

\* React runs the cleanup of the previous effect of instance i: the
\* function returned by its last setup (isMounted = false; unsubscribe();
\* prevSnapshotRef.current = undefined; setSnapshot(undefined) unless
\* keepPreviousData).  The setup of the pending effect has not run yet.
runCleanup(i) ==
    /\ phase[i] = "mounted"
    /\ effect[i].pending
    /\ cleanup[i].sub # 0
    /\ LET c == cleanup[i]
       IN /\ subs' = [subs EXCEPT ![i] = cleanupSubs(c, @)]
          /\ prevSnapshotRef' = [prevSnapshotRef EXCEPT ![i] = cleanupPrev(c, @)]
          /\ snapshot' = [snapshot EXCEPT ![i] = cleanupSnapshot(c, @)]
          /\ last' = Step("Cleanup", i, c.sub, FALSE, FALSE)
    /\ cleanup' = [cleanup EXCEPT ![i] = [sub |-> 0, keep |-> TRUE]]
    /\ applied' = [applied EXCEPT ![i] = NotApplied]
    /\ UNCHANGED <<schedVars, phase, generationRef, prevRRef, prevDepsRef,
                   hasRunEffectRef, props, effect, ret, transitioned, nData,
                   held>>

\* React runs the setup of the pending effect of instance i, once the
\* cleanup of the previous effect, if there was one, has run.
runSetup(i) == cleanup[i].sub = 0 /\ runEffect(i)

\* A render that makes React run the effect for a present source creates a
\* subscription; at most n per instance.
SubsBelow(i, r, deps, n) ==
    (effectFires(i, r, deps) /\ r \in Source) => Len(subs[i]) < n

Render(I, P, K, n) ==
    \E i \in I, p \in P, keep \in K :
        SubsBelow(i, p.r, p.deps, n) /\ useSubscribe(i, p.r, p.deps, keep)
Effect(I) == \E i \in I : runEffect(i)
Unmount(I) == \E i \in I : unmount(i)
Deliver(I, V, n) ==
    \E i \in I, v \in V : \E k \in 1..Len(subs[i]) : nData < n /\ onData(i, k, v)
Cleanup(I) == \E i \in I : runCleanup(i)
Setup(I) == \E i \in I : runSetup(i)

Flush == doCallback
Begin == beginFlush
Invoke == \E out \in Outcome : invoke(out)

\* One component, any source, dependency list and keepPreviousData in each
\* render, any result from any of its subscriptions at any time.
Next ==
    \/ Render({1}, Inputs, BOOLEAN, MaxSubs)
    \/ Effect({1})
    \/ Unmount({1})
    \/ Deliver({1}, Data, MaxData)
    \/ Flush

Spec == Init /\ [][Next]_vars

\* One component that passes keepPreviousData = true in every render and
\* whose sources deliver real values only.
NextKeep ==
    \/ Render({1}, Inputs, {TRUE}, MaxSubs)
    \/ Effect({1})
    \/ Unmount({1})
    \/ Deliver({1}, Data \ {Undef}, MaxData)
    \/ Flush

SpecKeep == Init /\ [][NextKeep]_vars

\* Two components that share the scheduler, with the default options; the
\* first switches between two sources, the second stays on one.
NextTwo ==
    \/ Render({1}, TwoSources, {TRUE}, MaxSubs)
    \/ Render({2}, OneSource, {TRUE}, MaxSubs)
    \/ Effect(Inst)
    \/ Unmount(Inst)
    \/ Deliver(Inst, {"a", Null}, MaxData)
    \/ Flush

SpecTwo == Init /\ [][NextTwo]_vars

\* The position in Chain of the source of the last render; 0 before it.
chainPos(i) ==
    IF props[i].r \in Source
    THEN CHOOSE n \in 1..Len(Chain) : Chain[n] = props[i].r
    ELSE 0
\* A render of the switching component passes the source of its last render
\* or the next one of Chain.
ChainInputs(i) ==
    {In(Chain[n], << >>) : n \in {m \in 1..Len(Chain) : m \in {chainPos(i), chainPos(i) + 1}}}
\* Subscription k of that component is on Chain[k] and delivers its result.
DeliverOwn(I, n) ==
    \E i \in I : \E k \in 1..Len(subs[i]) :
        nData < n /\ onData(i, k, QueryResult[Chain[k]])

\* One component that switches A -> B -> C, re-rendering in between as it
\* likes; each subscription delivers the result of its own source, at any
\* time and in any order.
NextRapid ==
    \/ Render({1}, ChainInputs(1), BOOLEAN, Len(Chain))
    \/ Effect({1})
    \/ Unmount({1})
    \/ DeliverOwn({1}, MaxData + 1)
    \/ Flush

SpecRapid == Init /\ [][NextRapid]_vars

\* One component that switches between two sources; the microtask that was
\* queued by Promise.resolve().then(doCallback) is run by the event loop.
NextLive ==
    \/ Render({1}, TwoSources, BOOLEAN, MaxSubs)
    \/ Effect({1})
    \/ Unmount({1})
    \/ Deliver({1}, Data, MaxData)
    \/ Flush

FairSpec == Init /\ [][NextLive]_vars /\ WF_vars(Flush)

\* One component whose source comes and goes, with either absent value, and
\* whose query has produced no value yet: undefined is all it delivers.
NextAbsent ==
    \/ Render({1}, SourceOrAbsent, BOOLEAN, MaxSubs)
    \/ Effect({1})
    \/ Unmount({1})
    \/ Deliver({1}, {Undef}, MaxData)
    \/ Flush

SpecAbsent == Init /\ [][NextAbsent]_vars

\* Two components on one source that share the scheduler; the flush runs
\* callback by callback, a callback may throw, and what a callback sets off
\* (renders, effects, unmounts, data events) may run before the next
\* callback is called.  The event loop runs the microtask, and the loop of
\* doCallback runs on.
NextFlush ==
    \/ Render(Inst, OneSource, {TRUE}, MaxSubs)
    \/ Effect(Inst)
    \/ Unmount(Inst)
    \/ Deliver(Inst, {"a", Null}, MaxData)
    \/ Begin
    \/ Invoke

SpecFlush == Init /\ [][NextFlush]_vars /\ WF_vars(Begin) /\ WF_vars(Invoke)

\* ------------------------------------------------------------------ claims

\* One component, any source, dependency list and keepPreviousData in each
\* render; the effect runs in two steps, the cleanup of the previous effect
\* and then the setup, and the sources may deliver in between.
NextSteps ==
    \/ Render({1}, Inputs, BOOLEAN, MaxSubs)
    \/ Cleanup({1})
    \/ Setup({1})
    \/ Unmount({1})
    \/ Deliver({1}, {"a", Null}, MaxData)
    \/ Flush

SpecSteps == Init /\ [][NextSteps]_vars

\* The step just taken is a render of instance i.
Rendered(i) == last.op = "Render" /\ last.inst = i
\* The step just taken is a data event of subscription k of instance i.
Delivered(i, k) == last.op = "Data" /\ last.inst = i /\ last.sub = k
\* What a render of instance i reads, and what a data event may write.
hookState(i) ==
    <<snapshot[i], prevSnapshotRef[i], generationRef[i], prevRRef[i],
      prevDepsRef[i], hasRunEffectRef[i], callbacks, hasPendingCallback,
      microtasks>>
\* Instance i is rendered with a source or a dependency list other than
\* those of its last completed setup.
Transition(i) ==
    /\ hasRunEffectRef[i]
    /\ props[i].r # prevRRef[i] \/ props[i].deps # prevDepsRef[i]



\* C1: a data event of a subscription that has a successor on the same
\* instance changes nothing a render reads and enqueues nothing, whenever
\* it arrives.
C1_StaleRejection ==
    [][\A i \in Inst : \A k \in 1..Len(subs[i]) :
          (Delivered(i, k)' /\ k < Len(subs[i])) => hookState(i)' = hookState(i)]_vars

\* C1 happens: the old subscription delivers after the new one has delivered
\* and its value was applied.
C1_Witness ==
    \E i \in Inst : \E k \in 1..Len(subs[i]) :
        /\ Delivered(i, k)
        /\ k < Len(subs[i])
        /\ subs[i][Len(subs[i])].fired
        /\ snapshot[i] \in RealData

\* C3: a render that detects a transition and passes keepPreviousData =
\* false returns default, whatever snapshot and prevSnapshotRef hold.
C3_Reset ==
    \A i \in Inst :
        (Rendered(i) /\ Transition(i) /\ ~props[i].keep) => ret[i] = Def

\* C3 happens: such a render while the snapshot and the cache hold values.
C3_Witness ==
    \E i \in Inst :
        /\ Rendered(i) /\ Transition(i) /\ ~props[i].keep
        /\ snapshot[i] \in RealData
        /\ prevSnapshotRef[i] \in RealData
        /\ ret[i] = Def

\* C2: with keepPreviousData = true, the render that detects a transition
\* and the renders after it return the real value the render before the
\* transition returned, until a data event or a flush.
C2_NoFlash ==
    \A i \in Inst :
        (Rendered(i) /\ props[i].keep /\ held[i] # NoRet) => ret[i] = held[i]

\* C5: once the source of instance i has gone from present to absent, a data
\* event of the subscription that was torn down changes neither the snapshot
\* nor the cache.
C5_AbsentTeardown ==
    [][\A i \in Inst : \A k \in 1..Len(subs[i]) :
          ( /\ Delivered(i, k)'
            /\ phase[i] = "mounted"
            /\ prevRRef[i] \in Absent
            /\ subs[i][k].unsubscribed > 0 )
          => /\ snapshot'[i] = snapshot[i]
             /\ prevSnapshotRef'[i] = prevSnapshotRef[i]]_vars

\* C6: no step changes the snapshot, the cache or the generation of an
\* instance that has been destroyed.
C6_PostDestroy ==
    [][\A i \in Inst :
          phase[i] = "destroyed"
          => /\ snapshot'[i] = snapshot[i]
             /\ prevSnapshotRef'[i] = prevSnapshotRef[i]
             /\ generationRef'[i] = generationRef[i]]_vars

\* C8: the render after a render that detected a transition and passed
\* keepPreviousData = false returns default too, when it passes the same
\* source and dependency list and false again, and no data event and no
\* flush came in between.
C8_DefaultPersists ==
    [][\A i \in Inst :
          ( /\ Rendered(i)' /\ ~props'[i].keep
            /\ props'[i].r = props[i].r /\ props'[i].deps = props[i].deps
            /\ QuietSinceRender(i)
            /\ transitioned[i] /\ ~props[i].keep )
          => ret'[i] = Def]_vars

\* The callbacks of instance i in the queue that a flush will apply: those
\* whose subscription is still mounted.
liveCallbacks(i) ==
    {n \in 1..Len(callbacks) :
        callbacks[n].inst = i /\ subs[i][callbacks[n].sub].isMounted}
\* The last of them.
lastLive(i) == CHOOSE n \in liveCallbacks(i) : \A m \in liveCallbacks(i) : m <= n

\* C4: however many honoured data events arrive between two flushes, from
\* whatever subscriptions and instances, one flush is scheduled, and when it
\* runs it empties the queue and applies every callback in it.
C4_Batching ==
    [][ /\ microtasks' <= 1
        /\ callbacks' # << >> => (microtasks' = 1 /\ hasPendingCallback')
        /\ last'.op = "Flush" =>
              /\ callbacks' = << >>
              /\ microtasks' = 0
              /\ \A i \in Inst :
                    snapshot'[i] = IF liveCallbacks(i) = {} THEN snapshot[i]
                                   ELSE callbacks[lastLive(i)].data ]_vars

\* C4 happens: two instances have enqueued in the same tick and one flush
\* is scheduled.
C4_Witness ==
    /\ microtasks = 1
    /\ \E n, m \in 1..Len(callbacks) : callbacks[n].inst # callbacks[m].inst

\* C7: with keepPreviousData = true in every render and real results only,
\* a render that follows a render that returned a real value does not return
\* default.
C7_NeverFallsBack ==
    [][\A i \in Inst :
          (Rendered(i)' /\ ret[i] \in RealData) => ret'[i] # Def]_vars

\* All three subscriptions of the switching component exist and have
\* delivered, and no effect, callback or microtask is pending.
Settled(i) ==
    /\ Len(subs[i]) = Len(Chain)
    /\ \A k \in 1..Len(subs[i]) : subs[i][k].fired
    /\ ~effect[i].pending
    /\ callbacks = << >> /\ microtasks = 0

\* C9: after the switches A -> B -> C, whatever the order in which the three
\* subscriptions delivered, a render made once everything has settled
\* returns the result of C.
C9_RapidSwitching ==
    \A i \in Inst :
        (Rendered(i) /\ props[i].r = Chain[Len(Chain)] /\ Settled(i))
        => ret[i] = QueryResult[Chain[Len(Chain)]]

\* C9 happens: such a render after each of the three subscriptions has
\* delivered once.
C9_Witness ==
    \E i \in Inst :
        /\ Rendered(i) /\ props[i].r = Chain[Len(Chain)] /\ Settled(i)
        /\ nData = Len(Chain)
        /\ ret[i] = QueryResult[Chain[Len(Chain)]]
        /\ generationRef[i] = Len(Chain)

\* The value v delivered by subscription k is the last one of instance i
\* that waits in the queue, and k is live.
Pending(i, k, v) ==
    /\ liveCallbacks(i) # {}
    /\ callbacks[lastLive(i)].sub = k
    /\ callbacks[lastLive(i)].data = v
\* The flush has just run and left v in the snapshot of instance i.
Applied(i, v) == last.op = "Flush" /\ snapshot[i] = v
\* Subscription k of instance i was torn down: by a transition or by unmount.
TornDown(i, k) == k <= Len(subs[i]) /\ ~subs[i][k].isMounted
\* A later data event of instance i waits in the queue behind (k, v).
Superseded(i, k, v) == liveCallbacks(i) # {} /\ ~Pending(i, k, v)

\* C10: a value delivered by the live subscription of a mounted instance is
\* applied by a flush that eventually runs, unless the subscription is torn
\* down first or a later value takes its place; and from then on a render
\* that detects no transition returns the snapshot when it is a real value.
C10_EventuallyApplied ==
    /\ \A i \in {1} : \A k \in 1..MaxSubs : \A v \in Data :
           Pending(i, k, v) ~> (Applied(i, v) \/ TornDown(i, k) \/ Superseded(i, k, v))
    /\ [][\A i \in Inst :
             (Rendered(i)' /\ ~transitioned'[i] /\ snapshot[i] \in RealData)
             => ret'[i] = snapshot[i]]_vars

\* C10 happens: two values were delivered, the flush has run, and the
\* render after it returns the applied value.
C10_Witness ==
    \E i \in Inst :
        /\ Rendered(i) /\ ~transitioned[i]
        /\ nData >= 2 /\ microtasks = 0 /\ callbacks = << >>
        /\ subs[i] # << >> /\ subs[i][Len(subs[i])].isMounted
        /\ snapshot[i] \in RealData
        /\ ret[i] = snapshot[i]

\* The render of instance i that was just made did not take the branch
\* "transition and keepPreviousData = false".
NotReset(i) == ~(transitioned[i] /\ ~props[i].keep)

\* C11: null is a value: a flush applies a delivered null; a render returns
\* a null snapshot, and with keepPreviousData = true a null cache when the
\* snapshot is undefined, also in the render that detects a transition; the
\* setup captures a null snapshot into the cache like any other value.
C11_NullIsData ==
    /\ [][\A i \in Inst :
             /\ ( /\ last'.op = "Flush" /\ liveCallbacks(i) # {}
                  /\ callbacks[lastLive(i)].data = Null ) => snapshot'[i] = Null
             /\ ( /\ last'.op = "Effect" /\ last'.inst = i
                  /\ props[i].r \in Source /\ props[i].keep
                  /\ effect[i].snapshot = Null ) => prevSnapshotRef'[i] = Null]_vars
    /\ [](\A i \in Inst :
             (Rendered(i) /\ NotReset(i)) =>
                 /\ snapshot[i] = Null => ret[i] = Null
                 /\ (snapshot[i] = Undef /\ props[i].keep /\ prevSnapshotRef[i] = Null)
                        => ret[i] = Null)

\* C11 happens: the render that detects a transition returns a retained null.
C11_Witness ==
    \E i \in Inst :
        /\ Rendered(i) /\ transitioned[i] /\ props[i].keep
        /\ snapshot[i] = Null
        /\ ret[i] = Null

\* C12 as stated: a render made while the value last applied from the
\* current subscription is undefined returns default.
C12_UndefinedMeansDefault ==
    \A i \in Inst : (Rendered(i) /\ applied[i] = Undef) => ret[i] = Def

\* C12, amended: a render made while the value last applied from the
\* current subscription is undefined, and no later value of that
\* subscription waits for the flush, returns default.
C12_UndefinedMeansDefaultWhenFlushed ==
    \A i \in Inst :
        (Rendered(i) /\ applied[i] = Undef /\ liveCallbacks(i) = {}) => ret[i] = Def

\* C12 happens: undefined was applied after an earlier delivery, and the
\* render with keepPreviousData = true returns default.
C12_Witness ==
    \E i \in Inst :
        /\ Rendered(i) /\ props[i].keep /\ ~transitioned[i]
        /\ applied[i] = Undef /\ callbacks = << >>
        /\ nData >= 2
        /\ ret[i] = Def

\* C13: the effect of a render whose source is null or undefined makes no
\* subscribe call, and such a render of an instance that has received no
\* real value returns default.
C13_AbsentSource ==
    /\ [][\A i \in Inst :
             (last'.op = "Effect" /\ last'.inst = i /\ props[i].r \in {RNull, RUndef})
             => Len(subs'[i]) = Len(subs[i])]_vars
    /\ [](\A i \in Inst :
             (Rendered(i) /\ props[i].r \in {RNull, RUndef}) => ret[i] = Def)

\* C13 happens: the effect of a render with an undefined source has run
\* after a subscription had been created and had delivered undefined, and
\* the next render returns default.
C13_Witness ==
    \E i \in Inst :
        /\ Rendered(i) /\ props[i].r = RUndef /\ prevRRef[i] = RUndef
        /\ Len(subs[i]) = 1 /\ subs[i][1].fired /\ subs[i][1].unsubscribed = 1
        /\ ret[i] = Def

Invoked == last.op = "Invoke"

\* C15: when a callback throws, the loop of the flush keeps every callback
\* that was behind it, the next one called is the first of them, a callback
\* called after a throw still sets the snapshot of its live instance, and
\* the rest of the queue is eventually called to the end.
C15_FailureIsolation ==
    /\ [][(Invoked' /\ last'.threw) => cbs' = Tail(cbs)]_vars
    /\ [][(Invoked /\ last.threw /\ Invoked') =>
             /\ cbs # << >>
             /\ last'.inst = Head(cbs).inst /\ last'.sub = Head(cbs).sub
             /\ (~last'.threw /\ subs[last'.inst][last'.sub].isMounted)
                    => snapshot'[last'.inst] = Head(cbs).data]_vars
    /\ (Invoked /\ last.threw /\ cbs # << >>) ~> (cbs = << >>)

\* C15 happens: a callback of one instance threw, and the callback of the
\* other instance, next in the queue, was called and set its snapshot.
C15_Witness ==
    /\ Invoked /\ last.afterThrow /\ ~last.threw
    /\ cbs = << >>
    /\ last.inst = 2 /\ snapshot[2] \in RealData
    /\ snapshot[1] = Undef

\* C16: the flush takes the whole queue when it begins and leaves it empty;
\* its loop calls the callbacks it took one by one from the front, each
\* once, to the end; a callback enqueued after the flush began joins the new
\* queue, never the running loop, and has a microtask scheduled for it,
\* which eventually begins a flush.
C16_FlushMembership ==
    /\ [][last'.op = "Begin" => (cbs' = callbacks /\ callbacks' = << >>)]_vars
    /\ [][(cbs' # cbs /\ last'.op # "Begin") =>
             /\ Invoked' /\ cbs # << >> /\ cbs' = Tail(cbs)
             /\ last'.inst = Head(cbs).inst /\ last'.sub = Head(cbs).sub]_vars
    /\ [][(last'.op = "Data" /\ last'.honoured) =>
             /\ cbs' = cbs
             /\ Len(callbacks') = Len(callbacks) + 1]_vars
    /\ [](callbacks # << >> => microtasks = 1)
    /\ (cbs # << >>) ~> (cbs = << >>)
    /\ (callbacks # << >>) ~> (last.op = "Begin")

\* C16 happens: a callback was enqueued while the loop of a flush still had
\* a callback to call.
C16_Witness ==
    /\ last.op = "Data" /\ last.honoured
    /\ cbs # << >>
    /\ Len(callbacks) = 1 /\ microtasks = 1

\* The subscriptions of instance i that were created and whose unsubscribe
\* has not been called.
liveSubs(i) == {k \in 1..Len(subs[i]) : subs[i][k].unsubscribed = 0}
\* Instance i is alive and its last completed setup saw a present source.
Subscribed(i) ==
    phase[i] = "mounted" /\ hasRunEffectRef[i] /\ prevRRef[i] \in Source

\* C17: an instance never has two subscriptions that are not unsubscribed,
\* and it has one, the last it created, whenever it is alive and its last
\* completed setup saw a present source.
C17_SingleLiveSubscription ==
    \A i \in Inst :
        /\ Cardinality(liveSubs(i)) <= 1
        /\ Subscribed(i) => liveSubs(i) = {Len(subs[i])}

\* C17 happens: the second subscription of an instance is live and the
\* first is not.
C17_Witness ==
    \E i \in Inst :
        /\ Subscribed(i) /\ Len(subs[i]) = 2 /\ liveSubs(i) = {2}
        /\ subs[i][1].fired

\* C18: unsubscribe of a subscription is never called twice, and it has
\* been called once when the subscription has a successor, when the last
\* completed setup saw an absent source, and when the instance is destroyed.
C18_UnsubscribeOnce ==
    \A i \in Inst : \A k \in 1..Len(subs[i]) :
        /\ subs[i][k].unsubscribed <= 1
        /\ ( \/ k < Len(subs[i])
             \/ prevRRef[i] \in Absent
             \/ phase[i] = "destroyed" ) => subs[i][k].unsubscribed = 1

\* C18 happens: an instance is destroyed after its source had become
\* absent, and unsubscribe of its subscription was called once.
C18_Witness ==
    \E i \in Inst :
        /\ phase[i] = "destroyed" /\ prevRRef[i] \in Absent
        /\ Len(subs[i]) = 1 /\ subs[i][1].unsubscribed = 1

\* C19: a render that passes the source and the dependency list of the last
\* completed setup leaves no effect to run, so that no subscribe and no
\* unsubscribe call follows from it, and leaves the subscriptions and the
\* generation as they are, whatever keepPreviousData it passes.
C19_Reuse ==
    [][\A i \in Inst :
          ( /\ Rendered(i)' /\ hasRunEffectRef[i]
            /\ props'[i].r = prevRRef[i] /\ props'[i].deps = prevDepsRef[i] )
          => /\ ~effect'[i].pending
             /\ subs'[i] = subs[i]
             /\ generationRef'[i] = generationRef[i]]_vars

\* C19 happens: such a render of a subscribed instance that passes another
\* keepPreviousData than the render that set the subscription up.
C19_Witness ==
    \E i \in Inst :
        /\ Rendered(i) /\ Subscribed(i) /\ ~effect[i].pending
        /\ props[i].r = prevRRef[i] /\ props[i].deps = prevDepsRef[i]
        /\ cleanup[i].sub # 0 /\ props[i].keep # cleanup[i].keep
        /\ generationRef[i] = 2

\* C20: a render, effect, unmount or data event of one instance leaves the
\* snapshot, the cache and the generation of every other instance as they
\* are, and a flush changes the snapshot of those instances only that have a
\* callback of their own in the queue, and no cache and no generation.
C20_InstanceIsolation ==
    [][\A j \in Inst :
          /\ (last'.op \in {"Render", "Effect", "Unmount", "Data"} /\ last'.inst # j)
                => /\ snapshot'[j] = snapshot[j]
                   /\ prevSnapshotRef'[j] = prevSnapshotRef[j]
                   /\ generationRef'[j] = generationRef[j]
          /\ last'.op = "Flush"
                => /\ liveCallbacks(j) = {} => snapshot'[j] = snapshot[j]
                   /\ prevSnapshotRef'[j] = prevSnapshotRef[j]
                   /\ generationRef'[j] = generationRef[j]]_vars

\* C20 happens: a flush has applied a value to one subscribed instance and
\* the other subscribed instance still has none.
C20_Witness ==
    /\ last.op = "Flush"
    /\ Subscribed(1) /\ Subscribed(2)
    /\ snapshot[1] \in RealData /\ applied[1] = snapshot[1]
    /\ snapshot[2] = Undef /\ prevSnapshotRef[2] = Undef

\* C21: every render returns the result of the four-step rule on the state
\* it reads: default when it detects a transition and keepPreviousData is
\* false; else the snapshot when it holds a real value; else the cache when
\* keepPreviousData is true and it holds a real value; else default.
C21_ResolutionOrder ==
    \A i \in Inst :
        Rendered(i) =>
            ret[i] = CASE transitioned[i] /\ ~props[i].keep -> Def
                       [] snapshot[i] \in RealData -> snapshot[i]
                       [] props[i].keep /\ prevSnapshotRef[i] \in RealData
                              -> prevSnapshotRef[i]
                       [] OTHER -> Def

\* C21 happens: a render finds real values that differ in the snapshot and
\* in the cache, a later value waiting for the flush, and returns the
\* snapshot.
C21_Witness ==
    \E i \in Inst :
        /\ Rendered(i) /\ props[i].keep
        /\ snapshot[i] \in RealData /\ prevSnapshotRef[i] \in RealData
        /\ snapshot[i] # prevSnapshotRef[i]
        /\ ret[i] = snapshot[i]

\* C22: the effect of a render that changes the source or the dependency
\* list calls unsubscribe of the old subscription in a step of its own,
\* which leaves the generation and the number of subscriptions as they are;
\* the generation is incremented and subscribe is called only when every
\* subscription made so far has been unsubscribed and flagged dead; so at
\* most one subscription is live in every state.
C22_StepOrder ==
    /\ [][\A i \in Inst :
             /\ (last'.op = "Cleanup" /\ last'.inst = i) =>
                    /\ generationRef'[i] = generationRef[i]
                    /\ Len(subs'[i]) = Len(subs[i])
                    /\ subs[i][last'.sub].unsubscribed = 0
                    /\ subs'[i][last'.sub].unsubscribed = 1
                    /\ ~subs'[i][last'.sub].isMounted
             /\ (generationRef'[i] # generationRef[i] \/ Len(subs'[i]) # Len(subs[i])) =>
                    /\ last'.op = "Effect"
                    /\ \A k \in 1..Len(subs[i]) :
                           subs[i][k].unsubscribed = 1 /\ ~subs[i][k].isMounted]_vars
    /\ [](\A i \in Inst :
             /\ Cardinality(liveSubs(i)) <= 1
             /\ Cardinality({k \in 1..Len(subs[i]) : subs[i][k].isMounted}) <= 1)

\* C22 happens: between the two steps of a transition from one present
\* source to another, the old subscription is unsubscribed and the
\* generation is still its own.
C22_Witness ==
    \E i \in Inst :
        /\ last.op = "Cleanup" /\ last.inst = i
        /\ prevRRef[i] \in Source /\ props[i].r \in Source
        /\ props[i].r # prevRRef[i]
        /\ effect[i].pending
        /\ Len(subs[i]) = 1 /\ liveSubs(i) = {}
        /\ generationRef[i] = subs[i][1].gen

\* C23: the generation of an instance is the number of subscribe calls it
\* has made; a step either leaves both as they are or adds one to both; the
\* k-th subscription of an instance has captured generation k, so no two
\* have captured the same.
C23_GenerationCounter ==
    /\ [](\A i \in Inst :
             /\ generationRef[i] = Len(subs[i])
             /\ \A k \in 1..Len(subs[i]) : subs[i][k].gen = k)
    /\ [][\A i \in Inst :
             /\ generationRef'[i] - generationRef[i] \in {0, 1}
             /\ generationRef'[i] - generationRef[i] = Len(subs'[i]) - Len(subs[i])
             /\ generationRef'[i] # generationRef[i] =>
                    (last'.op = "Effect" /\ last'.inst = i /\ props[i].r \in Source)]_vars

\* C23 happens: an instance whose source went away and came back has made
\* two subscribe calls in three setups, and its source is absent again.
C23_Witness ==
    \E i \in Inst :
        /\ phase[i] = "mounted" /\ hasRunEffectRef[i]
        /\ prevRRef[i] \in Absent /\ ~effect[i].pending
        /\ Len(subs[i]) = 2 /\ generationRef[i] = 2
        /\ subs[i][1].unsubscribed = 1 /\ subs[i][2].unsubscribed = 1

\* C24: a data event of a subscription whose captured generation is not the
\* generation of its instance at that moment leaves the cache, the queue,
\* the flush flag and the scheduled microtasks as they are; a data event
\* that writes the cache or enqueues a callback comes from the subscription
\* whose captured generation is the current one.
C24_GenerationGate ==
    [][\A i \in Inst : \A k \in 1..Len(subs[i]) :
          Delivered(i, k)' =>
              /\ subs[i][k].gen # generationRef[i] =>
                     /\ prevSnapshotRef'[i] = prevSnapshotRef[i]
                     /\ callbacks' = callbacks
                     /\ hasPendingCallback' = hasPendingCallback
                     /\ microtasks' = microtasks
              /\ (prevSnapshotRef'[i] # prevSnapshotRef[i] \/ callbacks' # callbacks) =>
                     subs[i][k].gen = generationRef[i]]_vars

\* C24 happens: the subscription before the current one delivers while a
\* value of the current one is in the cache and waits in the queue.
C24_Witness ==
    \E i \in Inst : \E k \in 1..Len(subs[i]) :
        /\ Delivered(i, k) /\ ~last.honoured
        /\ subs[i][k].gen = generationRef[i] - 1
        /\ callbacks # << >> /\ hasPendingCallback
        /\ callbacks[Len(callbacks)].sub = generationRef[i]
        /\ prevSnapshotRef[i] = callbacks[Len(callbacks)].data

\* C25: a render made before the first setup of its instance has completed
\* detects no transition, whatever source and dependency list it passes, and
\* returns what the snapshot and default rules give, which is default, also
\* with keepPreviousData = false.
C25_FirstMount ==
    \A i \in Inst :
        (Rendered(i) /\ ~hasRunEffectRef[i]) =>
            /\ ~transitioned[i]
            /\ snapshot[i] = Undef /\ prevSnapshotRef[i] = Undef
            /\ ret[i] = Def

\* C25 happens: the first render passes a source and a dependency list that
\* differ from the initial refs, and keepPreviousData = false.
C25_Witness ==
    \E i \in Inst :
        /\ Rendered(i) /\ ~hasRunEffectRef[i]
        /\ props[i].r \in Source /\ props[i].r # prevRRef[i]
        /\ props[i].deps # prevDepsRef[i]
        /\ ~props[i].keep
        /\ ~transitioned[i] /\ ret[i] = Def

\* C26: a render whose dependency list differs in length from the list of
\* the last completed setup detects a transition and leaves an effect to
\* run, and that effect unsubscribes the old subscription, increments the
\* generation and subscribes anew.
C26_LengthChange ==
    [][\A i \in Inst :
          /\ ( /\ Rendered(i)' /\ hasRunEffectRef[i]
               /\ Len(props'[i].deps) # Len(prevDepsRef[i]) )
             => (transitioned'[i] /\ effect'[i].pending)
          /\ ( /\ last'.op = "Effect" /\ last'.inst = i
               /\ Len(props[i].deps) # Len(prevDepsRef[i])
               /\ props[i].r \in Source /\ cleanup[i].sub # 0 )
             => /\ subs'[i][cleanup[i].sub].unsubscribed = 1
                /\ generationRef'[i] = generationRef[i] + 1
                /\ Len(subs'[i]) = Len(subs[i]) + 1]_vars

\* C27: the step that tears a subscription down (the cleanup that runs
\* before the setup for a new or an absent source, or the unmount) leaves
\* the cache undefined, sets the snapshot to undefined when the instance
\* passes keepPreviousData = false, and leaves the snapshot as it is when
\* the instance passes keepPreviousData = true.
C27_TeardownEffects ==
    [][\A i \in Inst :
          (last'.op \in {"Cleanup", "Unmount"} /\ last'.inst = i) =>
              /\ prevSnapshotRef'[i] = Undef
              /\ snapshot'[i] = IF props[i].keep THEN snapshot[i] ELSE Undef]_vars

\* C28: a flush leaves the snapshot of an instance as it is when every
\* callback of that instance in the queue comes from a subscription whose
\* unsubscribe has been called since (by a transition, an absent source or
\* the unmount); when some do not, the snapshot becomes the value of the
\* last of those, whatever callbacks of torn-down subscriptions surround it.
C28_LivenessFlag ==
    [][last'.op = "Flush" =>
          \A i \in Inst :
              LET mine == {n \in 1..Len(callbacks) : callbacks[n].inst = i}
                  kept == {n \in mine : subs[i][callbacks[n].sub].unsubscribed = 0}
              IN /\ kept = {} => snapshot'[i] = snapshot[i]
                 /\ kept # {} =>
                        snapshot'[i] =
                            callbacks[CHOOSE n \in kept : \A m \in kept : m <= n].data]_vars

\* C28 happens: the flush has run after the only data event, which the
\* first subscription delivered before it was superseded by the second, and
\* the snapshot is still undefined.
C28_Witness ==
    \E i \in Inst :
        /\ last.op = "Flush" /\ nData = 1
        /\ Len(subs[i]) = 2 /\ subs[i][1].fired /\ ~subs[i][2].fired
        /\ subs[i][1].unsubscribed = 1 /\ subs[i][2].unsubscribed = 0
        /\ phase[i] = "mounted"
        /\ snapshot[i] = Undef /\ applied[i] = NotApplied

\* C29: at most one doCallback microtask is queued; hasPendingCallback is
\* true exactly while one is queued and has not entered doCallback; a
\* non-empty queue has a microtask queued for it.
C29_SchedulerInvariant ==
    /\ microtasks \in {0, 1}
    /\ hasPendingCallback <=> (microtasks = 1)
    /\ callbacks # << >> => (hasPendingCallback /\ microtasks = 1)

\* C29 happens: the loop of a flush has just ended with a callback that
\* threw, and a callback enqueued while it ran has its own flush scheduled.
C29_Witness ==
    /\ Invoked /\ last.threw
    /\ cbs = << >>
    /\ callbacks # << >> /\ hasPendingCallback /\ microtasks = 1

\* The loop of a flush has just ended and one of its calls threw.
FlushFailed == Invoked /\ cbs = << >> /\ (last.threw \/ last.afterThrow)

\* C30: a flush empties the shared queue when it begins; a call of a
\* callback, throwing or not, leaves queue, flag and microtasks as they are;
\* the queue grows only by the callback of an honoured data event; so when
\* the loop of a flush in which a callback threw has ended, the queue holds
\* what was enqueued since it began, with a microtask queued exactly when
\* it is non-empty; the next enqueue into an empty queue schedules a flush,
\* and what is in the queue is eventually taken by a flush and called.
C30_QueueSurvives ==
    /\ [][ /\ last'.op = "Begin" => callbacks' = << >>
           /\ Invoked' =>
                  /\ callbacks' = callbacks
                  /\ hasPendingCallback' = hasPendingCallback
                  /\ microtasks' = microtasks
           /\ callbacks' # callbacks =>
                  \/ last'.op = "Begin"
                  \/ /\ last'.op = "Data" /\ last'.honoured
                     /\ callbacks' = Append(callbacks,
                            [inst |-> last'.inst, sub |-> last'.sub,
                             data |-> prevSnapshotRef'[last'.inst]])
           /\ (FlushFailed /\ last'.op = "Data" /\ last'.honoured) =>
                  /\ microtasks' = 1 /\ hasPendingCallback'
                  /\ Len(callbacks') = Len(callbacks) + 1 ]_vars
    /\ [](FlushFailed =>
             /\ hasPendingCallback <=> (microtasks = 1)
             /\ (callbacks # << >>) <=> (microtasks = 1))
    /\ (FlushFailed /\ callbacks # << >>) ~> (last.op = "Begin" /\ cbs # << >>)
    /\ (last.op = "Begin" /\ cbs # << >>) ~> (Invoked /\ cbs = << >>)

\* C30 happens: the callback of the first instance threw in an earlier
\* flush and left its snapshot undefined; the callback of the second
\* instance, enqueued since, has just been taken by a new flush.
C30_Witness ==
    /\ last.op = "Begin" /\ nData = 2
    /\ Len(cbs) = 1 /\ cbs[1].inst = 2
    /\ callbacks = << >> /\ microtasks = 0 /\ ~hasPendingCallback
    /\ subs[1] # << >> /\ subs[1][1].fired /\ subs[1][1].isMounted
    /\ snapshot[1] = Undef

\* C31: a data event leaves every snapshot as it is; the snapshot of an
\* instance changes only in a flush that calls a callback of its current
\* subscription while that is live, to the value of the last such callback,
\* or in a teardown (cleanup or unmount) of an instance that passes
\* keepPreviousData = false, to undefined.
C31_SnapshotFrame ==
    [][\A i \in Inst :
          /\ last'.op = "Data" => snapshot'[i] = snapshot[i]
          /\ snapshot'[i] # snapshot[i] =>
                 \/ /\ last'.op = "Flush"
                    /\ liveCallbacks(i) # {}
                    /\ callbacks[lastLive(i)].sub = Len(subs[i])
                    /\ snapshot'[i] = callbacks[lastLive(i)].data
                 \/ /\ last'.op \in {"Cleanup", "Unmount"} /\ last'.inst = i
                    /\ ~props[i].keep
                    /\ snapshot'[i] = Undef]_vars

\* C32: when the effect of a render has run, the refs hold the source and
\* the dependency list of that render; every render that passes the source
\* and the list the refs hold detects no transition, and with
\* keepPreviousData = false it returns the real value a flush last applied
\* from the current subscription, not default.
C32_NotSticky ==
    \A i \in Inst :
        /\ (last.op = "Effect" /\ last.inst = i) =>
               (prevRRef[i] = props[i].r /\ prevDepsRef[i] = props[i].deps)
        /\ ( /\ Rendered(i) /\ hasRunEffectRef[i]
             /\ props[i].r = prevRRef[i] /\ props[i].deps = prevDepsRef[i] ) =>
               /\ ~transitioned[i]
               /\ (~props[i].keep /\ applied[i] \in RealData) => ret[i] = applied[i]

\* C32 happens: after a transition to a second subscription and a value
\* applied from it, a render with the same inputs and keepPreviousData =
\* false returns that value.
C32_Witness ==
    \E i \in Inst :
        /\ Rendered(i) /\ ~props[i].keep
        /\ props[i].r = prevRRef[i] /\ props[i].deps = prevDepsRef[i]
        /\ Len(subs[i]) = 2 /\ generationRef[i] = 2 /\ subs[i][2].fired
        /\ applied[i] \in RealData
        /\ ~transitioned[i] /\ ret[i] = applied[i]

\* C33: right after a setup for a present source, made with
\* keepPreviousData = true by a render whose snapshot was a real value v, the
\* cache holds v, and v is the value the snapshot holds then: the cache is
\* not behind the snapshot.
C33_CacheRecapture ==
    [][\A i \in Inst :
          ( /\ last'.op = "Effect" /\ last'.inst = i
            /\ props[i].r \in Source /\ props[i].keep
            /\ effect[i].snapshot \in RealData )
          => /\ prevSnapshotRef'[i] = effect[i].snapshot
             /\ snapshot'[i] \in RealData => prevSnapshotRef'[i] = snapshot'[i]]_vars

\* C34: a data event of a subscription whose captured generation is the
\* generation of its instance writes the delivered value into the cache in
\* that same step, with the snapshot still as it was, and appends one
\* callback, its own and carrying that value, to the end of the shared
\* queue, with a flush scheduled for it.
C34_HonouredDelivery ==
    [][\A i \in Inst : \A k \in 1..Len(subs[i]) :
          (Delivered(i, k)' /\ subs[i][k].gen = generationRef[i]) =>
              /\ prevSnapshotRef'[i] = QueryResult[Chain[k]]
              /\ snapshot' = snapshot
              /\ callbacks' = Append(callbacks,
                     [inst |-> i, sub |-> k, data |-> QueryResult[Chain[k]]])
              /\ hasPendingCallback' /\ microtasks' = 1]_vars

\* C34 happens: the second subscription delivers while the value of the
\* first is in the snapshot and an earlier value of its own waits in the
\* queue; the cache has the new value and the queue has two callbacks.
C34_Witness ==
    \E i \in Inst :
        /\ Delivered(i, 2) /\ last.honoured
        /\ snapshot[i] = QueryResult[Chain[1]]
        /\ prevSnapshotRef[i] = QueryResult[Chain[2]]
        /\ Len(callbacks) = 2 /\ callbacks[2].sub = 2
        /\ microtasks = 1
====
